---- MODULE Spec2Model ----
(***************************************************************************)
(* A model of zli, a command-line argument parser built on zod schemas.    *)
(*                                                                         *)
(* The repository holds three versions of the Zli class:                   *)
(*   "zli1"  the first class of src/src/zli.ts   (lines 13-327)            *)
(*   "zli2"  the second class of src/src/zli.ts  (lines 355-729)           *)
(*   "index" the class of src/src/index.ts       (lines 24-371)            *)
(* The variable impl says which of them the instance was constructed from. *)
(*                                                                         *)
(* Strings are sequences of one-character strings, so that startsWith,     *)
(* split, slice and Number act on them as they do in the code.  Indices    *)
(* into args are the code's zero-based indices: args[i] is At(args, i).    *)
(***************************************************************************)
EXTENDS Integers, Sequences, FiniteSets, TLC

VARIABLES
    impl,               \* which Zli class this instance is
    commands,           \* this.commands, in Object.entries order
    shouldDisplayHelp,  \* this.shouldDisplayHelp (zli2, index)
    lastArgs,           \* the argument of the last parse call
    status,             \* "idle", or how the last parse call ended
    out,                \* console.log calls of the last parse call
    err,                \* console.error calls of the last parse call
    calls,              \* handler invocations of the last parse call
    resolverRuns,       \* calls of parseArgs/processArguments in the last parse
    validations,        \* calls of schema.safeParse in the last parse
    given               \* the registrations as the caller made them: what
                        \* this.commands would hold had no argument of
                        \* addCommand been dropped

vars == <<impl, commands, shouldDisplayHelp, lastArgs, status, out, err, calls,
          resolverRuns, validations, given>>

Impls == {"zli1", "zli2", "index"}

----------------------------------------------------------------------------
(* Bounds of the model.                                                    *)

\* the longest option token list a parse call of ResolverSpec is given
MaxOptions == 3
\* the longest option token list a parse call of Spec is given
MaxDispatchOptions == 2
\* the most addCommand calls made on one instance
MaxCommands == 2

----------------------------------------------------------------------------
(* Strings.                                                                *)

At(s, i) == s[i + 1]

\* String.prototype.startsWith
StartsWith(s, p) == Len(s) >= Len(p) /\ SubSeq(s, 1, Len(p)) = p

\* String.prototype.includes, for a one-character needle
Includes(s, c) == \E k \in 1..Len(s) : s[k] = c

\* String.prototype.slice(1)
Slice1(s) == IF Len(s) = 0 THEN <<>> ELSE Tail(s)

\* Array.prototype.includes
ArrayIncludes(a, x) == \E k \in 1..Len(a) : a[k] = x

RECURSIVE SplitFrom(_, _, _)
\* the pieces of s between the separators, cur being the piece in progress
SplitFrom(s, sep, cur) ==
    IF s = <<>> THEN <<cur>>
    ELSE IF Head(s) = sep THEN <<cur>> \o SplitFrom(Tail(s), sep, <<>>)
    ELSE SplitFrom(Tail(s), sep, Append(cur, Head(s)))

\* String.prototype.split(sep), sep one character
Split(s, sep) == SplitFrom(s, sep, <<>>)

\* String.prototype.split('')
Chars(s) == [k \in 1..Len(s) |-> <<s[k]>>]

Digits == {"0", "1", "2", "3", "4", "5", "6", "7", "8", "9"}

DigitVal(c) ==
    CASE c = "0" -> 0 [] c = "1" -> 1 [] c = "2" -> 2 [] c = "3" -> 3
      [] c = "4" -> 4 [] c = "5" -> 5 [] c = "6" -> 6 [] c = "7" -> 7
      [] c = "8" -> 8 [] c = "9" -> 9

RECURSIVE TrimLeft(_)
TrimLeft(s) == IF s # <<>> /\ Head(s) = " " THEN TrimLeft(Tail(s)) ELSE s

RECURSIVE TrimRight(_)
TrimRight(s) ==
    IF s # <<>> /\ s[Len(s)] = " " THEN TrimRight(SubSeq(s, 1, Len(s) - 1)) ELSE s

IsDigits(s) == s # <<>> /\ \A k \in 1..Len(s) : s[k] \in Digits

RECURSIVE DecVal(_)
DecVal(s) == IF s = <<>> THEN 0 ELSE 10 * DecVal(SubSeq(s, 1, Len(s) - 1)) + DigitVal(s[Len(s)])

NaN == [nan |-> TRUE, n |-> 0]

\* Number(value) for a string of digits, signs, blanks and other characters;
\* the empty string and blank strings convert to 0
ToNumber(s) ==
    LET t == TrimRight(TrimLeft(s)) IN
    IF t = <<>> THEN [nan |-> FALSE, n |-> 0]
    ELSE IF IsDigits(t) THEN [nan |-> FALSE, n |-> DecVal(t)]
    ELSE IF Head(t) = "-" /\ IsDigits(Tail(t)) THEN [nan |-> FALSE, n |-> 0 - DecVal(Tail(t))]
    ELSE IF Head(t) = "+" /\ IsDigits(Tail(t)) THEN [nan |-> FALSE, n |-> DecVal(Tail(t))]
    ELSE NaN

----------------------------------------------------------------------------
(* JavaScript values held in a parsed record, and optional strings.        *)

StrV(s)  == [t |-> "string",    s |-> s,    n |-> 0, b |-> FALSE, a |-> <<>>]
NumV(n)  == [t |-> "number",    s |-> <<>>, n |-> n, b |-> FALSE, a |-> <<>>]
BoolV(b) == [t |-> "boolean",   s |-> <<>>, n |-> 0, b |-> b,     a |-> <<>>]
ArrV(a)  == [t |-> "array",     s |-> <<>>, n |-> 0, b |-> FALSE, a |-> a]
UndefV   == [t |-> "undefined", s |-> <<>>, n |-> 0, b |-> FALSE, a |-> <<>>]

\* a value of type string | undefined
Undefined == [def |-> FALSE, s |-> <<>>]
Some(s)   == [def |-> TRUE, s |-> s]

\* the truthiness of a string | undefined: undefined and "" are falsy
Truthy(v) == v.def /\ v.s # <<>>

\* the empty record {}
EmptyRec == <<>>
\* an assignment that keeps the value a key already has
PutIfAbsent(rec, k, v) ==
    [x \in (DOMAIN rec) \cup {k} |-> IF x \in DOMAIN rec THEN rec[x] ELSE v]
\* the assignment rec[k] = v
Put(rec, k, v) == [x \in (DOMAIN rec) \cup {k} |-> IF x = k THEN v ELSE rec[x]]
Has(rec, k) == k \in DOMAIN rec

\* Map.prototype.set, a later set of the same key replacing the earlier one
MapSet(map, k, v) == [x \in (DOMAIN map) \cup {k} |-> IF x = k THEN v ELSE map[x]]

----------------------------------------------------------------------------
(* Schemas: what the code reads of a zod schema.                           *)
(*                                                                         *)
(* A field is [key, kind, optional, aliases]: kind is the zod class of the *)
(* field ("string", "number", "boolean", "array"), optional says whether   *)
(* it is wrapped in ZodOptional, aliases is what getAliases() returns.     *)
(* A schema is [base, shape, effects]: base "object" for z.object(...),    *)
(* shape its fields in declaration order, effects the refinements wrapped  *)
(* around it (one ZodEffects layer each), innermost first.                 *)

\* ZodType.prototype.aliases: one dash for a one-character alias, else two
AliasToken(alias) == IF Len(alias) = 1 THEN <<"-">> \o alias ELSE <<"-", "-">> \o alias

Aliases(names) == [k \in 1..Len(names) |-> AliasToken(names[k])]

\* ZodType.prototype.getAliases
GetAliases(field) == field.aliases

ZField(key, kind) == [key |-> key, kind |-> kind, optional |-> FALSE, aliases |-> <<>>]
Optional(field) == [field EXCEPT !.optional = TRUE]
WithAliases(field, names) == [field EXCEPT !.aliases = Aliases(names)]

ZObject(shape) == [base |-> "object", shape |-> shape, effects |-> <<>>]
Refine(schema, refinement) == [schema EXCEPT !.effects = Append(@, refinement)]
\* a schema that is no object shape, such as z.string()
ZStringSchema == [base |-> "string", shape |-> <<>>, effects |-> <<>>]

\* fieldType instanceof ZodBoolean ||
\* (fieldType instanceof ZodOptional && innerType instanceof ZodBoolean)
IsBooleanField(field) == field.kind = "boolean"

\* fieldType instanceof z.ZodArray: false for an optional array
IsArrayField(field) == field.kind = "array" /\ ~field.optional

\* type instanceof ZodNumber || (ZodOptional && innerType instanceof ZodNumber)
IsNumberField(field) == field.kind = "number"

\* unwrapSchema of the first class of zli.ts: a single ZodEffects layer at most
UnwrapSchema1(schema) ==
    IF Len(schema.effects) = 1 /\ schema.base = "object" THEN [ok |-> TRUE, shape |-> schema.shape]
    ELSE IF Len(schema.effects) = 0 /\ schema.base = "object" THEN [ok |-> TRUE, shape |-> schema.shape]
    ELSE [ok |-> FALSE, shape |-> <<>>]

\* unwrapSchema of the second class of zli.ts: every ZodEffects layer
UnwrapSchema2(schema) ==
    IF schema.base = "object" THEN [ok |-> TRUE, shape |-> schema.shape]
    ELSE [ok |-> FALSE, shape |-> <<>>]

\* resolveSchema of index.ts: every ZodEffects layer
ResolveSchema(schema) ==
    IF schema.base = "object" THEN [ok |-> TRUE, shape |-> schema.shape]
    ELSE [ok |-> FALSE, shape |-> <<>>]

\* the unwrapping of the class the instance is; ok FALSE is the thrown
\* Error('Unsupported schema type')
Unwrap(im, schema) ==
    CASE im = "zli1" -> UnwrapSchema1(schema)
      [] im = "zli2" -> UnwrapSchema2(schema)
      [] im = "index" -> ResolveSchema(schema)

\* the field of a shape with a key
FieldOf(shape, key) == shape[CHOOSE k \in 1..Len(shape) : shape[k].key = key]

Keys(shape) == {shape[k].key : k \in 1..Len(shape)}

----------------------------------------------------------------------------
(* parseValue.                                                             *)

\* parseValue(value, type): value is a string, or undefined where the code
\* passes value! without having set it
ParseValue(value, field) ==
    IF IsNumberField(field) THEN
        IF ~value.def THEN UndefV
        ELSE IF ToNumber(value.s).nan THEN StrV(value.s) ELSE NumV(ToNumber(value.s).n)
    ELSE IF IsBooleanField(field) THEN
        IF ~value.def THEN UndefV
        ELSE IF value.s = <<"t", "r", "u", "e">> THEN BoolV(TRUE)
        ELSE IF value.s = <<"f", "a", "l", "s", "e">> THEN BoolV(FALSE)
        ELSE StrV(value.s)
    ELSE IF value.def THEN StrV(value.s) ELSE UndefV

----------------------------------------------------------------------------
(* schema.safeParse: zod's validation of an assembled record.              *)

Issue(path, message) == [path |-> path, message |-> message]

\* the issue zod reports for one field of the shape, as a sequence of 0 or 1
FieldIssues(field, rec) ==
    LET v == IF Has(rec, field.key) THEN rec[field.key] ELSE UndefV IN
    IF v.t = "undefined" THEN
        IF field.optional THEN <<>> ELSE <<Issue(<<field.key>>, "Required")>>
    ELSE IF v.t = field.kind THEN <<>>
    ELSE <<Issue(<<field.key>>, "Invalid type")>>

RECURSIVE ShapeIssues(_, _)
ShapeIssues(shape, rec) ==
    IF shape = <<>> THEN <<>>
    ELSE FieldIssues(Head(shape), rec) \o ShapeIssues(Tail(shape), rec)

\* JavaScript truthiness of rec[key] as a refinement reads it
TruthyField(rec, key) ==
    /\ Has(rec, key)
    /\ \/ rec[key].t = "boolean" /\ rec[key].b
       \/ rec[key].t = "string" /\ rec[key].s # <<>>
       \/ rec[key].t = "number" /\ rec[key].n # 0
       \/ rec[key].t = "array"

\* one refinement: "notBoth" rejects a record with both fields truthy
\* (.refine(data => !(data.a && data.b), {message})); "pass" accepts all
RefinementIssues(refinement, rec) ==
    IF refinement.rule = "notBoth" /\ TruthyField(rec, refinement.a) /\ TruthyField(rec, refinement.b)
    THEN <<Issue(<<>>, refinement.message)>>
    ELSE <<>>

RECURSIVE EffectsIssues(_, _)
EffectsIssues(effects, rec) ==
    IF effects = <<>> THEN <<>>
    ELSE RefinementIssues(Head(effects), rec) \o EffectsIssues(Tail(effects), rec)

\* a validation that hands back the record with every optional boolean
\* field filled in, false where the record has no value for it
SafeParseFillsOmitted(schema, rec) ==
    IF schema.base # "object" THEN
        [success |-> FALSE, issues |-> <<Issue(<<>>, "Invalid type")>>, data |-> EmptyRec]
    ELSE
        LET inner == ShapeIssues(schema.shape, rec)
            issues == IF inner # <<>> THEN inner ELSE EffectsIssues(schema.effects, rec)
            filled == {schema.shape[k].key : k \in {n \in 1..Len(schema.shape) :
                          IsBooleanField(schema.shape[n]) /\ schema.shape[n].optional}}
        IN [success |-> issues = <<>>, issues |-> issues,
            data |-> [x \in (DOMAIN rec) \cup filled |->
                         IF x \in DOMAIN rec THEN rec[x] ELSE BoolV(FALSE)]]

\* schema.safeParse(parsedArgs): the refinements run when the object is valid
SafeParse(schema, rec) ==
    IF schema.base # "object" THEN
        [success |-> FALSE, issues |-> <<Issue(<<>>, "Invalid type")>>, data |-> EmptyRec]
    ELSE
        LET inner == ShapeIssues(schema.shape, rec)
            issues == IF inner # <<>> THEN inner ELSE EffectsIssues(schema.effects, rec)
        IN [success |-> issues = <<>>, issues |-> issues, data |-> rec]

----------------------------------------------------------------------------
(* The resolvers.  A resolver's local state is                             *)
(*   [i, parsed, processed, errs, sdh, status]                             *)
(* i the scan index, parsed the record parsedArgs, processed the set       *)
(* processedIndices, errs the console.error calls made so far, sdh the     *)
(* instance's shouldDisplayHelp, status "run" while the scan goes on and   *)
(* "fail" once the resolver has returned null.                             *)
(* A result that several later steps read is bound once, as the element   *)
(* of a one-element set: CHOOSE y \in {F(x) : x \in {e}} : TRUE is F(e).    *)

Err(msg, arg) == [msg |-> msg, arg |-> arg, issues |-> <<>>]

Fail(st, e) == [st EXCEPT !.errs = Append(@, e), !.status = "fail"]
\* a failure of the second class that leaves shouldDisplayHelp as it was
FailKeepsFlag(st, e) == [st EXCEPT !.errs = Append(@, e), !.status = "fail"]
\* a failure that also sets this.shouldDisplayHelp = true
FailHelp(st, e) == [st EXCEPT !.errs = Append(@, e), !.sdh = TRUE, !.status = "fail"]

T_true == <<"t", "r", "u", "e">>

RECURSIVE RunEnd(_, _)
\* the first index from j on that is past the end or holds a token starting
\* with "-": while (i < args.length && !args[i].startsWith('-')) i++
RunEnd(args, j) ==
    IF j < Len(args) /\ ~StartsWith(At(args, j), <<"-">>) THEN RunEnd(args, j + 1) ELSE j

\* args.slice(from, to)
SliceOf(args, from, to) == SubSeq(args, from + 1, to)

RECURSIVE TableOf1(_, _)
\* recognizedOptions of the first class: --key, then the field's aliases
TableOf1(shape, table) ==
    IF shape = <<>> THEN table
    ELSE LET f == Head(shape)
             t1 == MapSet(table, <<"-", "-">> \o f.key, f.key)
             set[k \in 0..Len(GetAliases(f))] ==
                 IF k = 0 THEN t1 ELSE MapSet(set[k - 1], GetAliases(f)[k], f.key)
         IN TableOf1(Tail(shape), set[Len(GetAliases(f))])

RECURSIVE TableOf2(_, _)
\* recognizedOptions / optionAliasMap of the second class and of index.ts:
\* --key, -key, then the field's aliases
TableOf2(shape, table) ==
    IF shape = <<>> THEN table
    ELSE LET f == Head(shape)
             t1 == MapSet(table, <<"-", "-">> \o f.key, f.key)
             t2 == MapSet(t1, <<"-">> \o f.key, f.key)
             set[k \in 0..Len(GetAliases(f))] ==
                 IF k = 0 THEN t2 ELSE MapSet(set[k - 1], GetAliases(f)[k], f.key)
         IN TableOf2(Tail(shape), set[Len(GetAliases(f))])

AliasTable(im, shape) ==
    IF im = "zli1" THEN TableOf1(shape, EmptyRec) ELSE TableOf2(shape, EmptyRec)

NoField == ZField(<<>>, "none")

\* parseOption of the second class (zli.ts) and, with the same text,
\* processOptionValue of index.ts.  The result carries the state st with
\* processedIndices, the error output and shouldDisplayHelp updated.
ParseOption(arg, args, i, table, shape, st) ==
    LET hasEq == Includes(arg, "=")
        name  == IF hasEq THEN Split(arg, "=")[1] ELSE arg
        value == IF hasEq THEN Some(Split(arg, "=")[2]) ELSE Undefined
        bad(e) == [success |-> FALSE, optionKey |-> <<>>, field |-> NoField,
                   value |-> Undefined, newIndex |-> i,
                   st |-> [st EXCEPT !.errs = Append(@, e), !.sdh = TRUE]]
    IN
    IF name \notin DOMAIN table THEN bad(Err("Unknown option", name))
    ELSE
        LET key   == table[name]
            field == FieldOf(shape, key)
            st1   == [st EXCEPT !.processed = @ \cup {i}]
        IN
        IF IsBooleanField(field) THEN
            [success |-> TRUE, optionKey |-> key, field |-> field,
             value |-> IF Truthy(value) THEN value ELSE Some(T_true),
             newIndex |-> i, st |-> st1]
        ELSE IF IsArrayField(field) THEN
            [success |-> TRUE, optionKey |-> key, field |-> field,
             value |-> Undefined, newIndex |-> i, st |-> st1]
        ELSE IF ~Truthy(value) THEN
            IF i + 1 >= Len(args) \/ StartsWith(At(args, i + 1), <<"-">>) THEN
                [bad(Err("Option requires a value", name)) EXCEPT !.st.processed = @ \cup {i}]
            ELSE
                [success |-> TRUE, optionKey |-> key, field |-> field,
                 value |-> Some(At(args, i + 1)), newIndex |-> i + 2,
                 st |-> [st1 EXCEPT !.processed = @ \cup {i + 1}]]
        ELSE
            [success |-> TRUE, optionKey |-> key, field |-> field,
             value |-> value, newIndex |-> i + 1, st |-> st1]

ProcessOptionValue(arg, args, i, table, shape, st) ==
    ParseOption(arg, args, i, table, shape, st)

RECURSIVE CombinedFlags2(_, _, _, _, _)
\* the loop over the characters of a combined short-flag token in parseArgs
\* of the second class; st.i is i after its i++
CombinedFlags2(flags, args, shape, table, st) ==
    IF flags = <<>> THEN st
    ELSE
        LET flagArg == <<"-">> \o Head(flags)
            \* the loop body for the result r of parseOption
            body(r) ==
                IF ~r.success THEN [r.st EXCEPT !.status = "fail"]
                ELSE IF IsBooleanField(r.field) THEN
                    CombinedFlags2(Tail(flags), args, shape, table,
                                   [r.st EXCEPT !.parsed = Put(@, r.optionKey, BoolV(TRUE))])
                ELSE IF r.st.i >= Len(args) \/ StartsWith(At(args, r.st.i), <<"-">>) THEN
                    FailHelp(r.st, Err("Option requires a value", flagArg))
                ELSE
                    CombinedFlags2(Tail(flags), args, shape, table,
                        [r.st EXCEPT !.processed = @ \cup {r.st.i},
                                     !.i = @ + 1,
                                     !.parsed = Put(@, r.optionKey,
                                                    ParseValue(Some(At(args, r.st.i)), r.field))])
        IN CHOOSE end \in
               {body(r) : r \in {ParseOption(flagArg, args, st.i - 1, table, shape, st)}} : TRUE

\* one iteration of the while loop of parseArgs of the second class
Step2(args, shape, table, st) ==
    LET i == st.i
        arg == At(args, i)
    IN
    IF StartsWith(arg, <<"-", "-">>) THEN
        LET r == ParseOption(arg, args, i, table, shape, st) IN
        IF ~r.success THEN [r.st EXCEPT !.status = "fail"]
        ELSE IF IsBooleanField(r.field) THEN
            [r.st EXCEPT !.parsed = Put(@, r.optionKey, BoolV(r.value.s = T_true)),
                         !.i = r.newIndex + 1]
        ELSE IF IsArrayField(r.field) THEN
            IF Truthy(r.value) THEN
                [r.st EXCEPT !.parsed = Put(@, r.optionKey, ArrV(Split(r.value.s, ","))),
                             !.i = r.newIndex]
            ELSE
                LET e == RunEnd(args, r.newIndex + 1) IN
                [r.st EXCEPT !.parsed = Put(@, r.optionKey, ArrV(SliceOf(args, r.newIndex + 1, e))),
                             !.processed = @ \cup (r.newIndex + 1 .. e - 1),
                             !.i = e]
        ELSE
            [r.st EXCEPT !.parsed = Put(@, r.optionKey, ParseValue(r.value, r.field)),
                         !.i = r.newIndex]
    ELSE IF StartsWith(arg, <<"-">>) /\ Len(arg) > 2 /\ ~StartsWith(arg, <<"-", "-">>) THEN
        CombinedFlags2(Chars(Slice1(arg)), args, shape, table,
                       [st EXCEPT !.processed = @ \cup {i}, !.i = i + 1])
    ELSE IF StartsWith(arg, <<"-">>) THEN
        LET r == ParseOption(arg, args, i, table, shape, st) IN
        IF ~r.success THEN [r.st EXCEPT !.status = "fail"]
        ELSE IF IsBooleanField(r.field) THEN
            [r.st EXCEPT !.parsed = Put(@, r.optionKey, BoolV(r.value.s = T_true)),
                         !.i = r.newIndex + 1]
        ELSE
            [r.st EXCEPT !.parsed = Put(@, r.optionKey, ParseValue(r.value, r.field)),
                         !.i = r.newIndex]
    ELSE FailHelp(st, Err("Unknown argument", arg))

RECURSIVE CombinedFlags1(_, _, _, _, _)
\* the loop over the characters of a combined short-flag token in parseArgs
\* of the first class; st.i moves on with every value a flag consumes
CombinedFlags1(flags, args, shape, table, st) ==
    IF flags = <<>> THEN st
    ELSE
        LET flagArg == <<"-">> \o Head(flags)
            \* the loop body in the local state s
            body(s) ==
                IF flagArg \notin DOMAIN table THEN Fail(s, Err("Unknown option", flagArg))
                ELSE
                    LET key == table[flagArg]
                        field == FieldOf(shape, key)
                    IN
                    IF IsBooleanField(field) THEN
                        CombinedFlags1(Tail(flags), args, shape, table,
                                       [s EXCEPT !.parsed = Put(@, key, BoolV(TRUE))])
                    ELSE IF s.i + 1 >= Len(args) \/ StartsWith(At(args, s.i + 1), <<"-">>) THEN
                        Fail(s, Err("Option requires a value", flagArg))
                    ELSE
                        CombinedFlags1(Tail(flags), args, shape, table,
                            [s EXCEPT !.parsed = Put(@, key, ParseValue(Some(At(args, s.i + 1)), field)),
                                      !.processed = @ \cup {s.i + 1},
                                      !.i = @ + 1])
        IN CHOOSE end \in {body(s) : s \in {st}} : TRUE

\* one iteration of the while loop of parseArgs of the first class
Step1(args, shape, table, st) ==
    LET i == st.i
        arg == At(args, i)
        hasEq == Includes(arg, "=")
        name  == IF hasEq THEN Split(arg, "=")[1] ELSE arg
        value == IF hasEq THEN Some(Split(arg, "=")[2]) ELSE Undefined
        \* the scalar branch shared by the long and the short option
        scalar(key, field) ==
            IF ~Truthy(value) THEN
                IF i + 1 >= Len(args) \/ StartsWith(At(args, i + 1), <<"-">>) THEN
                    Fail([st EXCEPT !.processed = @ \cup {i}],
                         Err("Option requires a value", name))
                ELSE
                    [st EXCEPT !.processed = @ \cup {i, i + 1},
                               !.parsed = Put(@, key, ParseValue(Some(At(args, i + 1)), field)),
                               !.i = i + 2]
            ELSE
                [st EXCEPT !.processed = @ \cup {i},
                           !.parsed = Put(@, key, ParseValue(value, field)),
                           !.i = i + 1]
        boolean(key) ==
            [st EXCEPT !.processed = @ \cup {i},
                       !.parsed = Put(@, key, BoolV(IF Truthy(value) THEN value.s = T_true ELSE TRUE)),
                       !.i = i + 1]
    IN
    IF StartsWith(arg, <<"-", "-">>) THEN
        IF name \notin DOMAIN table THEN Fail(st, Err("Unknown option", name))
        ELSE
            LET key == table[name]
                field == FieldOf(shape, key)
            IN
            IF IsBooleanField(field) THEN boolean(key)
            ELSE IF IsArrayField(field) THEN
                LET e == RunEnd(args, i + 1) IN
                [st EXCEPT !.processed = @ \cup (i .. e - 1),
                           !.parsed = Put(@, key, ArrV(SliceOf(args, i + 1, e))),
                           !.i = e]
            ELSE scalar(key, field)
    ELSE IF StartsWith(arg, <<"-">>) /\ Len(arg) > 2 THEN
        LET after == CombinedFlags1(Chars(Slice1(arg)), args, shape, table, st) IN
        IF after.status = "fail" THEN after
        ELSE [after EXCEPT !.processed = @ \cup {after.i}, !.i = @ + 1]
    ELSE IF StartsWith(arg, <<"-">>) THEN
        IF name \notin DOMAIN table THEN Fail(st, Err("Unknown option", name))
        ELSE
            LET key == table[name]
                field == FieldOf(shape, key)
            IN
            IF IsBooleanField(field) THEN boolean(key) ELSE scalar(key, field)
    ELSE [st EXCEPT !.processed = @ \cup {i}, !.i = i + 1]

\* processArrayArgs of index.ts: the tokens from index on that do not start
\* with "-"
ProcessArrayArgs(args, index) == SliceOf(args, index, RunEnd(args, index))

RECURSIVE ProcessCombinedShortFlags(_, _, _, _, _)
\* the loop of processCombinedShortFlags of index.ts; st.i is i after its
\* i++.  A failure ends the loop with status "fail": the function then
\* returns i like a success does
ProcessCombinedShortFlags(flags, args, shape, table, st) ==
    IF flags = <<>> THEN st
    ELSE
        LET flagArg == <<"-">> \o Head(flags)
            \* the loop body for the result r of processOptionValue
            body(r) ==
                IF ~r.success THEN [r.st EXCEPT !.sdh = TRUE, !.status = "fail"]
                ELSE IF IsBooleanField(r.field) THEN
                    ProcessCombinedShortFlags(Tail(flags), args, shape, table,
                                   [r.st EXCEPT !.parsed = Put(@, r.optionKey, BoolV(TRUE))])
                ELSE IF r.st.i >= Len(args) \/ StartsWith(At(args, r.st.i), <<"-">>) THEN
                    FailHelp(r.st, Err("Option requires a value", flagArg))
                ELSE
                    ProcessCombinedShortFlags(Tail(flags), args, shape, table,
                        [r.st EXCEPT !.processed = @ \cup {r.st.i},
                                     !.i = @ + 1,
                                     !.parsed = Put(@, r.optionKey,
                                                    ParseValue(Some(At(args, r.st.i)), r.field))])
        IN CHOOSE end \in
               {body(r) : r \in {ProcessOptionValue(flagArg, args, st.i - 1, table, shape, st)}} : TRUE

\* one iteration of the for loop of processArguments of index.ts, its i++
\* included
StepIndex(args, shape, table, st) ==
    LET i == st.i
        arg == At(args, i)
    IN
    IF StartsWith(arg, <<"-", "-">>) THEN
        LET r == ProcessOptionValue(arg, args, i, table, shape, st) IN
        IF ~r.success THEN [r.st EXCEPT !.status = "fail"]
        ELSE IF IsBooleanField(r.field) THEN
            [r.st EXCEPT !.parsed = Put(@, r.optionKey, BoolV(r.value.s = T_true)),
                         !.i = i + 1]
        ELSE IF IsArrayField(r.field) THEN
            [r.st EXCEPT !.parsed = Put(@, r.optionKey,
                                        IF Truthy(r.value) THEN ArrV(Split(r.value.s, ","))
                                        ELSE ArrV(ProcessArrayArgs(args, i))),
                         !.i = i + 1]
        ELSE
            [r.st EXCEPT !.parsed = Put(@, r.optionKey, ParseValue(r.value, r.field)),
                         !.i = (r.newIndex - 1) + 1]
    ELSE IF StartsWith(arg, <<"-">>) /\ Len(arg) > 2 THEN
        LET after == ProcessCombinedShortFlags(Chars(Slice1(arg)), args, shape, table,
                         [st EXCEPT !.processed = @ \cup {i}, !.i = i + 1])
        IN \* i = (the returned i) - 1, then the loop's i++; the caller does
           \* not look at whether a flag failed
           [after EXCEPT !.status = "run"]
    ELSE FailHelp(st, Err("Unknown argument", arg))

Step(im, args, shape, table, st) ==
    CASE im = "zli1" -> Step1(args, shape, table, st)
      [] im = "zli2" -> Step2(args, shape, table, st)
      [] im = "index" -> StepIndex(args, shape, table, st)

RECURSIVE Scan(_, _, _, _, _)
\* the scan loop run to its end.  An iteration that leaves the whole local
\* state as it found it repeats for ever: status "hang"
Scan(im, args, shape, table, st) ==
    IF st.status # "run" \/ st.i >= Len(args) THEN st
    ELSE CHOOSE end \in
             {IF next = st THEN [st EXCEPT !.status = "hang"]
              ELSE Scan(im, args, shape, table, next) :
                  next \in {Step(im, args, shape, table, st)}} : TRUE

\* a report of a failed validation that prints the header and no issue
ValidationHeaderOnly(im, issues) ==
    <<[msg |-> "Argument validation failed:", arg |-> <<>>, issues |-> <<>>]>>

\* console.error output of a failed validation: the first class prints the
\* header and every issue in a call of its own, the others print one text
ValidationErrors(im, issues) ==
    IF im = "zli1" THEN
        <<[msg |-> "Argument validation failed:", arg |-> <<>>, issues |-> <<>>]>>
        \o [k \in 1..Len(issues) |-> [msg |-> "issue", arg |-> <<>>, issues |-> <<issues[k]>>]]
    ELSE <<[msg |-> "Argument validation failed:", arg |-> <<>>, issues |-> issues]>>

\* the first argument the scan of the first class left unprocessed
Unprocessed(args, processed) == {k \in 0..Len(args) - 1 : k \notin processed}
FirstOf(indices) == CHOOSE k \in indices : \A m \in indices : k <= m

\* parseArgs (zli.ts, both classes) and processArguments (index.ts):
\* [status, data, parsed, errs, sdh, validated], status "ok" for a returned
\* record, "null" for a returned null, "throw" for the Error of
\* unwrapSchema, "hang" for a scan that never ends
ParseArgs(im, args, schema, sdh) ==
    LET u == Unwrap(im, schema)
        res(stat, st, data, validated) ==
            [status |-> stat, data |-> data, parsed |-> st.parsed, errs |-> st.errs,
             sdh |-> st.sdh, validated |-> validated, processed |-> st.processed]
        st0 == [i |-> 0, parsed |-> EmptyRec, processed |-> {}, errs |-> <<>>,
                sdh |-> sdh, status |-> "run"]
        \* what follows the scan loop that ended in the local state end
        after(end) ==
            IF end.status = "hang" THEN res("hang", end, EmptyRec, FALSE)
            ELSE IF end.status = "fail" THEN res("null", end, EmptyRec, FALSE)
            ELSE IF im = "zli1" /\ Unprocessed(args, end.processed) # {} THEN
                res("null",
                    [end EXCEPT !.errs = Append(@, Err("Unknown argument",
                                      At(args, FirstOf(Unprocessed(args, end.processed)))))],
                    EmptyRec, FALSE)
            ELSE
                LET v == SafeParse(schema, end.parsed) IN
                IF ~v.success THEN
                    res("null",
                        [end EXCEPT !.errs = @ \o ValidationErrors(im, v.issues),
                                    !.sdh = IF im = "zli1" THEN @ ELSE TRUE],
                        EmptyRec, TRUE)
                ELSE res("ok", end, v.data, TRUE)
    IN
    IF ~u.ok THEN res("throw", st0, EmptyRec, FALSE)
    ELSE CHOOSE r \in
             {after(end) : end \in {Scan(im, args, u.shape, table, st0) :
                                        table \in {AliasTable(im, u.shape)}}} : TRUE

----------------------------------------------------------------------------
(* Help output.  A console.log call is [kind, part, name, lines]: kind     *)
(* "global" or "command", part which piece of the help text the call       *)
(* prints ("all" when one call prints the whole text), name the command of *)
(* a command help, lines the commands or options listed.                   *)

Line(name, aliases, optional) == [name |-> name, aliases |-> aliases, optional |-> optional]
Log(kind, part, name, lines) == [kind |-> kind, part |-> part, name |-> name, lines |-> lines]

\* displayHelp
DisplayHelp(im, cmds) ==
    IF im = "zli1" THEN
        <<Log("global", "header", <<>>, <<>>)>>
        \o [k \in 1..Len(cmds) |->
               Log("global", "line", <<>>, <<Line(cmds[k].name, cmds[k].aliases, FALSE)>>)]
        \o <<Log("global", "trailer", <<>>, <<>>)>>
    ELSE IF im = "zli2" THEN
        <<Log("global", "all", <<>>,
              [k \in 1..Len(cmds) |-> Line(cmds[k].name, cmds[k].aliases, FALSE)])>>
    ELSE
        <<Log("global", "all", <<>>,
              [k \in 1..Len(cmds) |-> Line(cmds[k].name, <<>>, FALSE)])>>

\* displayHelpForCommand, for a schema that unwraps to shape
DisplayHelpForCommand(im, commandName, shape) ==
    LET lines == [k \in 1..Len(shape) |->
                     Line(shape[k].key, GetAliases(shape[k]), shape[k].optional)]
    IN
    IF im = "zli1" THEN
        <<Log("command", "usage", commandName, <<>>),
          Log("command", "options", commandName, <<>>)>>
        \o [k \in 1..Len(lines) |-> Log("command", "line", commandName, <<lines[k]>>)]
        \o <<Log("command", "examples", commandName, <<>>)>>
    ELSE <<Log("command", "all", commandName, lines)>>

----------------------------------------------------------------------------
(* The registry and parse.                                                 *)

T_help == <<"-", "-", "h", "e", "l", "p">>

\* how a handler behaves when it is called
Handlers == {"h1", "h2", "hThrowsError", "hThrowsNull"}

\* the index in cmds of the entry named name, 0 when there is none
IndexOfName(cmds, name) ==
    IF \E k \in 1..Len(cmds) : cmds[k].name = name
    THEN CHOOSE k \in 1..Len(cmds) : cmds[k].name = name
    ELSE 0

\* this.commands[commandName] = { schema, handler, aliases }: an existing
\* property keeps its place, a new one goes last.  index.ts stores no aliases
SetCommand(im, cmds, commandName, schema, handler, aliases) ==
    LET entry == [name |-> commandName, schema |-> schema, handler |-> handler,
                  aliases |-> IF im = "index" THEN <<>> ELSE aliases]
        at == IndexOfName(cmds, commandName)
    IN IF at = 0 THEN Append(cmds, entry) ELSE [cmds EXCEPT ![at] = entry]

\* [cmdName, ...cmd.aliases].includes(subcommand); index.ts: [cmdName]
Matches(im, cmd, subcommand) ==
    IF im = "index" THEN cmd.name = subcommand
    ELSE cmd.name = subcommand \/ ArrayIncludes(cmd.aliases, subcommand)

\* Object.entries(this.commands).find(...): the first entry that matches, as
\* its index, 0 for undefined
FindCommand(im, cmds, subcommand) ==
    IF \E k \in 1..Len(cmds) : Matches(im, cmds[k], subcommand)
    THEN CHOOSE k \in 1..Len(cmds) :
             /\ Matches(im, cmds[k], subcommand)
             /\ \A m \in 1..(k - 1) : ~Matches(im, cmds[m], subcommand)
    ELSE 0

Call(handler, record) == [handler |-> handler, record |-> record]

\* a dispatcher that calls the handler a second time after it returned
InvokeHandlerTwice(handler, record) ==
    [calls  |-> <<Call(handler, record), Call(handler, record)>>,
     err    |-> <<>>,
     status |-> "returned"]

\* try { handler(parsedArgs) } catch (error) { console.error(... error.message) }
\* reading .message of a thrown null throws out of the catch block
InvokeHandler(handler, record) ==
    [calls  |-> <<Call(handler, record)>>,
     err    |-> IF handler = "hThrowsError"
                THEN <<Err("An error occurred while executing the command", <<>>)>>
                ELSE <<>>,
     status |-> IF handler = "hThrowsNull" THEN "threw" ELSE "returned"]

Outcome(stat, o, e, c, sdh, runs, vals) ==
    [status |-> stat, out |-> o, err |-> e, calls |-> c, sdh |-> sdh,
     resolverRuns |-> runs, validations |-> vals]

\* a dispatcher that answers an unknown command with the global help alone
UnknownCommandSilent(im, cmds, sdh, subcommand) ==
    Outcome("returned", DisplayHelp(im, cmds), <<>>, <<>>, sdh, 0, 0)

\* if (!command) { ... }: global help, after an error unless the token is
\* "--help"
UnknownCommand(im, cmds, sdh, subcommand) ==
    IF subcommand = T_help THEN
        Outcome("returned", DisplayHelp(im, cmds), <<>>, <<>>, sdh, 0, 0)
    ELSE
        Outcome("returned", DisplayHelp(im, cmds),
                <<Err("Unknown command", subcommand)>>, <<>>, sdh, 0, 0)

\* if (options.includes('--help')) { displayHelpForCommand(...); return; }
\* displayHelpForCommand throws when the schema does not unwrap
HelpForCommand(im, def, sdh) ==
    LET u == Unwrap(im, def.schema) IN
    IF u.ok
    THEN Outcome("returned", DisplayHelpForCommand(im, def.name, u.shape),
                 <<>>, <<>>, sdh, 0, 0)
    ELSE Outcome("threw", <<>>, <<>>, <<>>, sdh, 0, 0)

\* the rest of parse: resolve the options, show the command's help when
\* the resolver returned null, else call the handler
Dispatch(im, def, sdh, options) ==
    LET u == Unwrap(im, def.schema)
        \* what parse does with the resolver's result r
        rest(r) ==
            LET vals == IF r.validated THEN 1 ELSE 0 IN
            IF r.status = "throw" THEN Outcome("threw", <<>>, r.errs, <<>>, r.sdh, 1, vals)
            ELSE IF r.status = "hang" THEN Outcome("hung", <<>>, r.errs, <<>>, r.sdh, 1, vals)
            ELSE IF r.status = "null" THEN
                IF im = "zli1" \/ r.sdh
                THEN Outcome("returned", DisplayHelpForCommand(im, def.name, u.shape),
                             r.errs, <<>>, r.sdh, 1, vals)
                ELSE Outcome("returned", <<>>, r.errs, <<>>, r.sdh, 1, vals)
            ELSE
                LET h == InvokeHandler(def.handler, r.data) IN
                Outcome(h.status, <<>>, r.errs \o h.err, h.calls, r.sdh, 1, vals)
    IN CHOOSE o \in {rest(r) : r \in {ParseArgs(im, options, def.schema, sdh)}} : TRUE

\* parse(args) on an instance with registry cmds and shouldDisplayHelp sdh
ParseOutcome(im, cmds, sdh, args) ==
    IF Len(args) = 0 THEN
        Outcome("returned", DisplayHelp(im, cmds), <<>>, <<>>, sdh, 0, 0)
    ELSE
        LET subcommand == args[1]
            options == Tail(args)
            found == FindCommand(im, cmds, subcommand)
        IN
        IF found = 0 THEN UnknownCommand(im, cmds, sdh, subcommand)
        ELSE IF ArrayIncludes(options, T_help) THEN HelpForCommand(im, cmds[found], sdh)
        ELSE Dispatch(im, cmds[found], sdh, options)

----------------------------------------------------------------------------
(* The schemas, registrations and tokens the model draws its inputs from.  *)

K_name == <<"n", "a", "m", "e">>
K_msg == <<"m", "s", "g">>
K_age == <<"a", "g", "e">>
K_a == <<"a">>
K_b == <<"b">>
K_c == <<"c">>
K_verbose == <<"v", "e", "r", "b", "o", "s", "e">>
K_tags == <<"t", "a", "g", "s">>
K_quiet == <<"q", "u", "i", "e", "t">>
K_force == <<"f", "o", "r", "c", "e">>
K_interactive == <<"i", "n", "t", "e", "r", "a", "c", "t", "i", "v", "e">>
N_add == <<"a", "d", "d">>
N_rm == <<"r", "m">>
N_run == <<"r", "u", "n">>
N_cmd == <<"c", "m", "d">>
A_n == <<"n">>
A_fn == <<"f", "n">>
A_v == <<"v">>
A_t == <<"t">>
A_q == <<"q">>
A_f == <<"f">>
A_i == <<"i">>
T_x == <<"x">>
T_y == <<"y">>
T_empty == <<>>
T_blank == <<" ">>
T_5 == <<"5">>
T_minus5 == <<"-", "5">>
T_xEqY == <<"x", "=", "y">>
T_dashX == <<"-", "x">>
T_zz == <<"-", "-", "z", "z">>
T_unknownCmd == <<"z", "z">>
T_name == <<"-", "-", "n", "a", "m", "e">>
T_n == <<"-", "n">>
T_fn == <<"-", "-", "f", "n">>
T_nameEqX == <<"-", "-", "n", "a", "m", "e", "=", "x">>
T_nEqX == <<"-", "n", "=", "x">>
T_msg == <<"-", "-", "m", "s", "g">>
T_msgEqX == <<"-", "-", "m", "s", "g", "=", "x">>
T_msgEq == <<"-", "-", "m", "s", "g", "=">>
T_msgEqXEqY == <<"-", "-", "m", "s", "g", "=", "x", "=", "y">>
T_msgEqDashX == <<"-", "-", "m", "s", "g", "=", "-", "x">>
T_age == <<"-", "-", "a", "g", "e">>
T_ageEq5 == <<"-", "-", "a", "g", "e", "=", "5">>
T_ageEqX == <<"-", "-", "a", "g", "e", "=", "x">>
T_ageEqMinus5 == <<"-", "-", "a", "g", "e", "=", "-", "5">>
T_abc == <<"-", "a", "b", "c">>
T_a == <<"-", "a">>
T_b == <<"-", "b">>
T_c == <<"-", "c">>
T_ab == <<"-", "a", "b">>
T_longA == <<"-", "-", "a">>
T_verbose == <<"-", "-", "v", "e", "r", "b", "o", "s", "e">>
T_verboseEqTrue == <<"-", "-", "v", "e", "r", "b", "o", "s", "e", "=", "t", "r", "u", "e">>
T_verboseEqFalse == <<"-", "-", "v", "e", "r", "b", "o", "s", "e", "=", "f", "a", "l", "s", "e">>
T_verboseEqYes == <<"-", "-", "v", "e", "r", "b", "o", "s", "e", "=", "y", "e", "s">>
T_v == <<"-", "v">>
T_vz == <<"-", "v", "z">>
T_tags == <<"-", "-", "t", "a", "g", "s">>
T_tagsEqXY == <<"-", "-", "t", "a", "g", "s", "=", "x", ",", "y">>
T_t == <<"-", "t">>
T_q == <<"-", "q">>
T_qt == <<"-", "q", "t">>
T_force == <<"-", "-", "f", "o", "r", "c", "e">>
T_interactive == <<"-", "-", "i", "n", "t", "e", "r", "a", "c", "t", "i", "v", "e">>
T_f == <<"-", "f">>
T_i == <<"-", "i">>
T_fi == <<"-", "f", "i">>

\* z.object({ name: z.string().aliases('n', 'fn') })
NameSchema == ZObject(<<WithAliases(ZField(K_name, "string"), <<A_n, A_fn>>)>>)
\* z.object({ msg: z.string() })
MsgSchema == ZObject(<<ZField(K_msg, "string")>>)
\* z.object({ age: z.number() })
AgeSchema == ZObject(<<ZField(K_age, "number")>>)
\* z.object({ a: z.boolean().aliases('a'), b: ..., c: ... })
FlagsSchema ==
    ZObject(<<WithAliases(ZField(K_a, "boolean"), <<K_a>>),
              WithAliases(ZField(K_b, "boolean"), <<K_b>>),
              WithAliases(ZField(K_c, "boolean"), <<K_c>>)>>)
\* z.object({ verbose: z.boolean().optional().aliases('v') })
VerboseSchema == ZObject(<<WithAliases(Optional(ZField(K_verbose, "boolean")), <<A_v>>)>>)
\* z.object({ tags: z.array(z.string()).aliases('t'),
\*            quiet: z.boolean().optional().aliases('q') })
TagsSchema ==
    ZObject(<<WithAliases(ZField(K_tags, "array"), <<A_t>>),
              WithAliases(Optional(ZField(K_quiet, "boolean")), <<A_q>>)>>)
\* z.object({ force: z.boolean().optional().aliases('f'),
\*            interactive: z.boolean().optional().aliases('i') })
\*   .refine(data => !(data.force && data.interactive), { message })
RefinedSchema ==
    Refine(ZObject(<<WithAliases(Optional(ZField(K_force, "boolean")), <<A_f>>),
                     WithAliases(Optional(ZField(K_interactive, "boolean")), <<A_i>>)>>),
           [rule |-> "notBoth", a |-> K_force, b |-> K_interactive,
            message |-> "Cannot use --force and --interactive together"])
\* the same with a second .refine(...) around it
Refined2Schema ==
    Refine(RefinedSchema, [rule |-> "pass", a |-> <<>>, b |-> <<>>, message |-> ""])
\* z.object({ msg: z.string().optional(),
\*            name: z.string().optional().aliases('msg') })
AliasedKeySchema ==
    ZObject(<<Optional(ZField(K_msg, "string")),
              WithAliases(Optional(ZField(K_name, "string")), <<K_msg>>)>>)
\* z.object({})
EmptySchema == ZObject(<<>>)

\* the schemas of the commands a ResolverSpec instance is given
ResolverSchemas ==
    {NameSchema, MsgSchema, AgeSchema, FlagsSchema, VerboseSchema, TagsSchema,
     RefinedSchema, Refined2Schema, ZStringSchema, AliasedKeySchema}

\* the option tokens a caller passes to a command with a schema
Vocabulary(schema) ==
    CASE schema = NameSchema -> {T_name, T_n, T_fn, T_nameEqX, T_nEqX, T_x, T_y, T_zz}
      [] schema = MsgSchema -> {T_msg, T_msgEqX, T_msgEq, T_msgEqXEqY, T_msgEqDashX,
                                T_x, T_empty, T_xEqY, T_dashX}
      [] schema = AgeSchema -> {T_age, T_ageEq5, T_ageEqX, T_ageEqMinus5,
                                T_5, T_x, T_minus5, T_empty, T_blank}
      [] schema = FlagsSchema -> {T_abc, T_a, T_b, T_c, T_ab, T_longA}
      [] schema = VerboseSchema -> {T_verbose, T_verboseEqTrue, T_verboseEqFalse,
                                    T_verboseEqYes, T_v, T_vz, T_x}
      [] schema = TagsSchema -> {T_tags, T_tagsEqXY, T_x, T_y, T_t, T_q, T_qt}
      [] schema = RefinedSchema -> {T_force, T_interactive, T_f, T_i, T_fi, T_help}
      [] schema = Refined2Schema -> {T_force, T_interactive, T_f, T_i, T_fi, T_help}
      [] schema = ZStringSchema -> {T_help, T_x}
      [] schema = AliasedKeySchema -> {T_msg, T_name, T_x}
      [] OTHER -> {T_help, T_nameEqX, T_zz}

\* the addCommand calls a Spec instance is given
Registrations ==
    {[name |-> N_add, schema |-> NameSchema,  handler |-> "h1", aliases |-> <<K_a>>],
     [name |-> N_add, schema |-> EmptySchema, handler |-> "h2", aliases |-> <<>>],
     [name |-> N_rm,  schema |-> EmptySchema, handler |-> "h2", aliases |-> <<>>],
     [name |-> N_rm,  schema |-> EmptySchema, handler |-> "hThrowsNull", aliases |-> <<N_add>>],
     [name |-> T_help, schema |-> EmptySchema, handler |-> "h2", aliases |-> <<>>],
     [name |-> N_run, schema |-> EmptySchema, handler |-> "hThrowsError", aliases |-> <<T_help>>]}

\* the first tokens a Spec caller passes
CommandTokens == {N_add, N_rm, K_a, T_help, T_unknownCmd}
\* the option tokens a Spec caller passes
DispatchVocabulary == {T_help, T_nameEqX, T_zz}

\* the sequences over S of length 0..n
SeqsUpTo(S, n) == UNION {[1..k -> S] : k \in 0..n}

----------------------------------------------------------------------------
(* The state machine.                                                      *)

\* new Zli()
Init ==
    /\ impl \in Impls
    /\ commands = <<>>
    /\ shouldDisplayHelp = FALSE
    /\ lastArgs = <<>>
    /\ status = "idle"
    /\ out = <<>>
    /\ err = <<>>
    /\ calls = <<>>
    /\ resolverRuns = 0
    /\ validations = 0
    /\ given = <<>>

\* addCommand(commandName, schema, handler, ...aliases)
AddCommand(commandName, schema, handler, aliases) ==
    /\ status = "idle"
    /\ Len(SetCommand(impl, commands, commandName, schema, handler, aliases)) <= MaxCommands
    /\ commands' = SetCommand(impl, commands, commandName, schema, handler, aliases)
    /\ given' = SetCommand("zli2", given, commandName, schema, handler, aliases)
    /\ UNCHANGED <<impl, shouldDisplayHelp, lastArgs, status, out, err, calls,
                   resolverRuns, validations>>

\* parse(args), from its call to its return, throw or hang
Parse(args) ==
    /\ status = "idle"
    /\ \E o \in {ParseOutcome(impl, commands, shouldDisplayHelp, args)} :
        /\ lastArgs' = args
        /\ status' = o.status
        /\ out' = o.out
        /\ err' = o.err
        /\ calls' = o.calls
        /\ shouldDisplayHelp' = o.sdh
        /\ resolverRuns' = o.resolverRuns
        /\ validations' = o.validations
    /\ UNCHANGED <<impl, commands, given>>

\* the caller has looked at what the call did and resets its console and
\* handler spies (afterEach/beforeEach, handlerMock.resetHistory()); a call
\* that hangs never gives control back
ResetSpies ==
    /\ status \in {"returned", "threw"}
    /\ lastArgs' = <<>>
    /\ status' = "idle"
    /\ out' = <<>>
    /\ err' = <<>>
    /\ calls' = <<>>
    /\ resolverRuns' = 0
    /\ validations' = 0
    /\ UNCHANGED <<impl, commands, shouldDisplayHelp, given>>

\* the caller calls a method only while no call is under way
AddAnyCommand ==
    /\ status = "idle"
    /\ \E r \in Registrations : AddCommand(r.name, r.schema, r.handler, r.aliases)

ParseAnyCommand ==
    /\ status = "idle"
    /\ \E c \in CommandTokens, opts \in SeqsUpTo(DispatchVocabulary, MaxDispatchOptions) :
          Parse(<<c>> \o opts)

ParseNothing == Parse(<<>>)

Next == AddAnyCommand \/ ParseAnyCommand \/ ParseNothing \/ ResetSpies

Spec == Init /\ [][Next]_vars

\* an instance with one command registered, whose options are resolved
ResolverInit ==
    /\ impl \in Impls
    /\ \E s \in ResolverSchemas :
          /\ commands = SetCommand(impl, <<>>, N_cmd, s, "h1", <<>>)
          /\ given = commands
    /\ shouldDisplayHelp = FALSE
    /\ lastArgs = <<>>
    /\ status = "idle"
    /\ out = <<>>
    /\ err = <<>>
    /\ calls = <<>>
    /\ resolverRuns = 0
    /\ validations = 0

ParseOptions ==
    /\ status = "idle"
    /\ \E opts \in SeqsUpTo(Vocabulary(commands[1].schema), MaxOptions) :
          Parse(<<N_cmd>> \o opts)

ResolverNext == ParseOptions \/ ResetSpies

ResolverSpec == ResolverInit /\ [][ResolverNext]_vars

----------------------------------------------------------------------------
(* Properties.  A state with status # "idle" is the state right after a    *)
(* parse(lastArgs) call: out, err and calls are what that call printed and *)
(* whom it called.                                                         *)

Called == status # "idle"
\* the option tokens of the last call
Options == Tail(lastArgs)
\* commands[k] is the first registry entry args[0] matches
ResolvesTo(k) ==
    /\ Called
    /\ lastArgs # <<>>
    /\ k \in 1..Len(commands)
    /\ Matches(impl, commands[k], lastArgs[1])
    /\ \A m \in 1..(k - 1) : ~Matches(impl, commands[m], lastArgs[1])
\* the help of the command named name was printed, and no other help
RendersCommandHelp(name) ==
    /\ out # <<>>
    /\ \A k \in 1..Len(out) : out[k].kind = "command" /\ out[k].name = name
    /\ out[1].part \in {"all", "usage"}
\* the global help was printed, and no other help
RendersGlobalHelp ==
    /\ out # <<>>
    /\ \A k \in 1..Len(out) : out[k].kind = "global"
    /\ out[1].part \in {"all", "header"}
\* at least one console.error call carries the message msg
Emits(msg) == \E k \in 1..Len(err) : err[k].msg = msg

\* C1: when args[0] resolves to a command, no option token is "--help" and
\* the resolver returns a validated record for the option tokens, parse
\* calls that command's handler exactly once, with that record, and calls
\* no other handler.
C1_HandlerInvokedOnce ==
    \A k \in 1..Len(commands) :
        (ResolvesTo(k) /\ ~ArrayIncludes(Options, T_help)) =>
            LET r == ParseArgs(impl, Options, commands[k].schema, shouldDisplayHelp) IN
            r.status = "ok" => calls = <<Call(commands[k].handler, r.data)>>

\* a call that dispatched to one of two registered commands with a record
\* that carries an option value
C1_Witness ==
    /\ Called
    /\ Len(commands) = 2
    /\ resolverRuns = 1
    /\ validations = 1
    /\ Len(calls) = 1
    /\ DOMAIN calls[1].record # {}

\* the messages of a failed resolution or validation
ResolutionErrors ==
    {"Unknown option", "Option requires a value", "Unknown argument",
     "Argument validation failed:"}

\* C2: when the resolver or the validation of a resolved command reports
\* an error ("Unknown option", "requires a value", "Unknown argument",
\* "Argument validation failed:"), parse renders that command's help and
\* returns without calling the handler, also when the error is reported
\* inside processCombinedShortFlags.
C2_ErrorRendersCommandHelp ==
    \A k \in 1..Len(commands) :
        (ResolvesTo(k) /\ \E msg \in ResolutionErrors : Emits(msg)) =>
            /\ status = "returned"
            /\ RendersCommandHelp(commands[k].name)
            /\ calls = <<>>

\* the option a token names: what precedes its first "="
TokenName(t) == IF Includes(t, "=") THEN Split(t, "=")[1] ELSE t
\* token t can select the field key: by its name, or as one of the
\* characters of a combined short flag
Selects(t, table, key) ==
    \/ TokenName(t) \in DOMAIN table /\ table[TokenName(t)] = key
    \/ /\ StartsWith(t, <<"-">>)
       /\ \E j \in 2..Len(t) :
             <<"-", t[j]>> \in DOMAIN table /\ table[<<"-", t[j]>>] = key
\* key is a required field of the command args[0] resolves to, commands[k],
\* and no option token selects it
RequiredAbsent(k, key) ==
    /\ ResolvesTo(k)
    /\ commands[k].schema.base = "object"
    /\ key \in Keys(commands[k].schema.shape)
    /\ ~FieldOf(commands[k].schema.shape, key).optional
    /\ \A j \in 1..Len(Options) :
          ~Selects(Options[j], AliasTable(impl, commands[k].schema.shape), key)
\* a validation failure was printed that names the path <<key>>: in the
\* console.error call of the header, or in a later call of the same report
NamesField(key) ==
    \E j \in 1..Len(err) :
        /\ err[j].msg = "Argument validation failed:"
        /\ \/ \E n \in 1..Len(err[j].issues) : err[j].issues[n].path = <<key>>
           \/ \E m \in (j + 1)..Len(err) :
                 /\ err[m].msg = "issue"
                 /\ \E n \in 1..Len(err[m].issues) : err[m].issues[n].path = <<key>>

\* C3 as stated: when no option token selects a required field (and no
\* token asks for help, and the schema unwraps), parse prints a validation
\* failure that starts with "Argument validation failed:" and names the
\* field's path, and never calls the handler.
C3_MissingRequiredReported ==
    \A k \in 1..Len(commands) : \A key \in Keys(commands[k].schema.shape) :
        (/\ RequiredAbsent(k, key)
         /\ ~ArrayIncludes(Options, T_help)
         /\ Unwrap(impl, commands[k].schema).ok) =>
            NamesField(key) /\ calls = <<>>

\* C3 amended: when no option token selects a required field, parse never
\* calls the handler; and when the call reaches the schema validation (no
\* "--help", no resolution failure before it), it prints a validation
\* failure that starts with "Argument validation failed:" and names the
\* field's path.
C3_MissingRequiredNeverDispatched ==
    \A k \in 1..Len(commands) : \A key \in Keys(commands[k].schema.shape) :
        RequiredAbsent(k, key) =>
            /\ calls = <<>>
            /\ validations = 1 => NamesField(key)

\* a call with option tokens, none of which selects the required field,
\* that reached the validation and printed the failure for the field
C3_Witness ==
    \E k \in 1..Len(commands) : \E key \in Keys(commands[k].schema.shape) :
        /\ RequiredAbsent(k, key)
        /\ Options # <<>>
        /\ validations = 1
        /\ NamesField(key)
        /\ calls = <<>>

\* C4: when args[0] resolves to a command (with a schema that is an object
\* under its refinements) and a later token is exactly "--help", parse
\* renders that command's help and nothing else: no error, no resolution,
\* no validation, no handler call.
C4_HelpTokenRendersCommandHelp ==
    \A k \in 1..Len(commands) :
        (/\ ResolvesTo(k)
         /\ ArrayIncludes(Options, T_help)
         /\ commands[k].schema.base = "object") =>
            /\ status = "returned"
            /\ out = DisplayHelpForCommand(impl, commands[k].name, commands[k].schema.shape)
            /\ err = <<>>
            /\ calls = <<>>
            /\ resolverRuns = 0
            /\ validations = 0

C6_GlobalHelp ==
    (Called /\ (lastArgs = <<>> \/ lastArgs[1] = T_help)) =>
        /\ status = "returned"
        /\ out = DisplayHelp(impl, commands)
        /\ err = <<>>
        /\ calls = <<>>

\* token is the name or an alias of exactly one of the registrations made
Unambiguous(token) ==
    \E k \in 1..Len(given) :
        /\ given[k].name = token \/ ArrayIncludes(given[k].aliases, token)
        /\ \A m \in 1..Len(given) :
              m # k => /\ given[m].name # token
                       /\ ~ArrayIncludes(given[m].aliases, token)
\* what the variables show of a parse call
Observed == [status |-> status, out |-> out, err |-> err, calls |-> calls]
\* the same of the call parse(args) on this instance
ObservedOf(args) ==
    LET o == ParseOutcome(impl, commands, shouldDisplayHelp, args)
    IN [status |-> o.status, out |-> o.out, err |-> o.err, calls |-> o.calls]

\* C7: a call whose args[0] is an alias given to addCommand for a command
\* does what the call with the command's name in its place does (for an
\* alias and a name that no other registration uses).
C7_AliasDispatchesAsName ==
    \A k \in 1..Len(given) :
        (/\ Called
         /\ lastArgs # <<>>
         /\ ArrayIncludes(given[k].aliases, lastArgs[1])
         /\ Unambiguous(lastArgs[1])
         /\ Unambiguous(given[k].name)) =>
            Observed = ObservedOf(<<given[k].name>> \o Options)

\* the text of a token after its first "="
ValueAfterEq(t) ==
    LET at == CHOOSE j \in 1..Len(t) : t[j] = "=" /\ \A m \in 1..(j - 1) : t[m] # "="
    IN SubSeq(t, at + 1, Len(t))
\* the option tokens with the token at j replaced by the tokens of with
Replaced(j, with) == SubSeq(Options, 1, j - 1) \o with \o SubSeq(Options, j + 1, Len(Options))
\* the field the token name selects in the command's alias table
SelectedField(name) ==
    FieldOf(commands[1].schema.shape, AliasTable(impl, commands[1].schema.shape)[name])
\* the token at j of the options is name=v for a string or number field;
\* name starts with prefix and has nameLen characters, v is not empty and
\* does not start with a dash
InlineValueAt(j, prefix, nameLen) ==
    /\ ResolvesTo(1)
    /\ Unwrap(impl, commands[1].schema).ok
    /\ ~ArrayIncludes(Options, T_help)
    /\ j \in 1..Len(Options)
    /\ Includes(Options[j], "=")
    /\ StartsWith(Options[j], prefix)
    /\ nameLen = 0 \/ Len(TokenName(Options[j])) = nameLen
    /\ TokenName(Options[j]) \in DOMAIN AliasTable(impl, commands[1].schema.shape)
    /\ SelectedField(TokenName(Options[j])).kind \in {"string", "number"}
    /\ ValueAfterEq(Options[j]) # <<>>
    /\ ~StartsWith(ValueAfterEq(Options[j]), <<"-">>)

\* C8: for a string or number field and a value v (not empty, not shaped
\* like a flag), the token --opt=v does what the two tokens --opt v do.
C8_InlineEqualsNextToken ==
    \A j \in 1..MaxOptions :
        InlineValueAt(j, <<"-", "-">>, 0) =>
            Observed = ObservedOf(<<lastArgs[1]>>
                           \o Replaced(j, <<TokenName(Options[j]), ValueAfterEq(Options[j])>>))

\* C9: for a string or number field with the alias token -k, whenever the
\* two tokens -k value resolve and validate, the one token -k=value is
\* accepted as well and the handler gets the same record.
C9_ShortInlineEquals ==
    \A j \in 1..MaxOptions :
        InlineValueAt(j, <<"-">>, 2) =>
            LET r == ParseArgs(impl,
                         Replaced(j, <<TokenName(Options[j]), ValueAfterEq(Options[j])>>),
                         commands[1].schema, shouldDisplayHelp)
            IN r.status = "ok" =>
                   /\ err = <<>>
                   /\ calls = <<Call(commands[1].handler, r.data)>>

\* the resolver's result for the option tokens opts of the one command
Resolved(opts) == ParseArgs(impl, opts, commands[1].schema, shouldDisplayHelp)
\* opts resolve and validate without any console.error call
ResolvesCleanly(opts) == Resolved(opts).status = "ok" /\ Resolved(opts).errs = <<>>
\* the option tokens split after the n-th into two lists that each resolve
\* cleanly and each assign the field key
RepeatedAt(n, key) ==
    /\ ResolvesTo(1)
    /\ ~ArrayIncludes(Options, T_help)
    /\ n \in 1..(Len(Options) - 1)
    /\ ResolvesCleanly(SubSeq(Options, 1, n))
    /\ ResolvesCleanly(SubSeq(Options, n + 1, Len(Options)))
    /\ Has(Resolved(SubSeq(Options, 1, n)).parsed, key)
    /\ Has(Resolved(SubSeq(Options, n + 1, Len(Options))).parsed, key)

\* C10: when a field is given again later in the token list, through its
\* canonical option or any alias, the resolver reports no error for the
\* repetition and the record holds the value of the rightmost occurrence.
C10_RightmostWins ==
    \A n \in 1..MaxOptions : \A key \in Keys(commands[1].schema.shape) :
        RepeatedAt(n, key) =>
            /\ Resolved(Options).validated
            /\ \A j \in 1..Len(err) :
                  err[j].msg \notin {"Unknown option", "Option requires a value",
                                     "Unknown argument"}
            /\ Resolved(Options).parsed[key]
                   = Resolved(SubSeq(Options, n + 1, Len(Options))).parsed[key]
            /\ calls # <<>> =>
                   calls[1].record[key]
                       = Resolved(SubSeq(Options, n + 1, Len(Options))).parsed[key]

\* a field given twice with different values, once by its canonical option
\* and once by an alias, and the handler called with the later value
C10_Witness ==
    \E n \in 1..MaxOptions : \E key \in Keys(commands[1].schema.shape) :
        /\ RepeatedAt(n, key)
        /\ TokenName(Options[1]) # TokenName(Options[n + 1])
        /\ Resolved(SubSeq(Options, 1, n)).parsed[key]
               # Resolved(SubSeq(Options, n + 1, Len(Options))).parsed[key]
        /\ Len(calls) = 1
        /\ calls[1].record[key]
               = Resolved(SubSeq(Options, n + 1, Len(Options))).parsed[key]

\* the token at j of the options is a combined short flag -xyz of three
\* characters, each the single-dash alias of a boolean field
CombinedBooleansAt(j) ==
    /\ ResolvesTo(1)
    /\ Unwrap(impl, commands[1].schema).ok
    /\ ~ArrayIncludes(Options, T_help)
    /\ j \in 1..Len(Options)
    /\ Len(Options[j]) = 4
    /\ StartsWith(Options[j], <<"-">>)
    /\ \A n \in 2..4 :
          /\ Options[j][n] \notin {"-", "="}
          /\ <<"-", Options[j][n]>> \in DOMAIN AliasTable(impl, commands[1].schema.shape)
          /\ IsBooleanField(SelectedField(<<"-", Options[j][n]>>))

\* C11: a combined token -abc of boolean single-dash flags does what the
\* three separate tokens -a -b -c do.
C11_CombinedEqualsSeparate ==
    \A j \in 1..MaxOptions :
        CombinedBooleansAt(j) =>
            Observed = ObservedOf(<<lastArgs[1]>>
                           \o Replaced(j, [n \in 1..3 |-> <<"-", Options[j][n + 1]>>]))

\* the resolver scans opts to the end without a resolution error: the
\* record it assembled goes to the validation
ScansCleanly(opts) ==
    /\ Resolved(opts).validated
    /\ \A n \in 1..Len(Resolved(opts).errs) :
          Resolved(opts).errs[n].msg \in {"Argument validation failed:", "issue"}
\* the last option token at j is --key, without "=", of the array field
\* key, the tokens before it scan cleanly, and all tokens after it are the
\* run of tokens that do not start with "-"
ArrayRunAt(j, key) ==
    /\ ResolvesTo(1)
    /\ Unwrap(impl, commands[1].schema).ok
    /\ ~ArrayIncludes(Options, T_help)
    /\ j \in 1..Len(Options)
    /\ StartsWith(Options[j], <<"-", "-">>)
    /\ ~Includes(Options[j], "=")
    /\ Options[j] \in DOMAIN AliasTable(impl, commands[1].schema.shape)
    /\ AliasTable(impl, commands[1].schema.shape)[Options[j]] = key
    /\ IsArrayField(SelectedField(Options[j]))
    /\ \A n \in (j + 1)..Len(Options) : ~StartsWith(Options[n], <<"-">>)
    /\ ScansCleanly(SubSeq(Options, 1, j - 1))

\* C12: an array field given as --key without "=" gets exactly the run of
\* following tokens that do not start with "-", in input order, and none
\* of them is reported as an unknown argument.
C12_ArrayGreedyRun ==
    \A j \in 1..MaxOptions : \A key \in Keys(commands[1].schema.shape) :
        ArrayRunAt(j, key) =>
            /\ ~Emits("Unknown argument")
            /\ Resolved(Options).validated
            /\ Resolved(Options).parsed[key] = ArrV(SubSeq(Options, j + 1, Len(Options)))
            /\ calls # <<>> =>
                   calls[1].record[key] = ArrV(SubSeq(Options, j + 1, Len(Options)))

\* the last option token, at j, is --key=v of the array field key, and
\* the tokens before it scan cleanly
InlineArrayAt(j, key) ==
    /\ ResolvesTo(1)
    /\ Unwrap(impl, commands[1].schema).ok
    /\ ~ArrayIncludes(Options, T_help)
    /\ j = Len(Options)
    /\ j >= 1
    /\ StartsWith(Options[j], <<"-", "-">>)
    /\ Includes(Options[j], "=")
    /\ ValueAfterEq(Options[j]) # <<>>
    /\ TokenName(Options[j]) \in DOMAIN AliasTable(impl, commands[1].schema.shape)
    /\ AliasTable(impl, commands[1].schema.shape)[TokenName(Options[j])] = key
    /\ IsArrayField(SelectedField(TokenName(Options[j])))
    /\ ScansCleanly(SubSeq(Options, 1, j - 1))

\* C13: an array field given as --key=a,b,c gets the inline value split
\* on commas, the record that --key a b c gives.
C13_InlineArraySplit ==
    \A j \in 1..MaxOptions : \A key \in Keys(commands[1].schema.shape) :
        InlineArrayAt(j, key) =>
            /\ Resolved(Options).validated
            /\ Resolved(Options).parsed[key] = ArrV(Split(ValueAfterEq(Options[j]), ","))
            /\ Observed = ObservedOf(<<lastArgs[1]>>
                              \o Replaced(j, <<TokenName(Options[j])>>
                                                 \o Split(ValueAfterEq(Options[j]), ",")))

\* an issue with the message of one of the schema's refinements was printed
EmitsRefinementMessage(schema) ==
    \E j \in 1..Len(err) : \E n \in 1..Len(err[j].issues) :
        \E e \in 1..Len(schema.effects) :
            err[j].issues[n].message = schema.effects[e].message

\* C14: for a command whose schema is an object shape under one or more
\* refinement layers, the class unwraps to that shape, help is rendered
\* from it, no call throws, and a record that violates a refinement is
\* rejected with the refinement's message and never reaches the handler.
C14_RefinedSchemaUnwrapped ==
    (/\ ResolvesTo(1)
     /\ commands[1].schema.base = "object"
     /\ Len(commands[1].schema.effects) >= 1) =>
        /\ Unwrap(impl, commands[1].schema) = [ok |-> TRUE, shape |-> commands[1].schema.shape]
        /\ status # "threw"
        /\ ArrayIncludes(Options, T_help) =>
               out = DisplayHelpForCommand(impl, commands[1].name, commands[1].schema.shape)
        /\ \A k \in 1..Len(calls) :
               EffectsIssues(commands[1].schema.effects, calls[k].record) = <<>>
        /\ (/\ ~ArrayIncludes(Options, T_help)
            /\ ScansCleanly(Options)
            /\ EffectsIssues(commands[1].schema.effects, Resolved(Options).parsed) # <<>>) =>
               EmitsRefinementMessage(commands[1].schema) /\ calls = <<>>


\* the handlers that throw when they are called
ThrowingHandlers == {"hThrowsError", "hThrowsNull"}

\* C15: when the handler that parse calls throws, whatever the thrown
\* value, parse prints exactly one error "An error occurred while executing
\* the command: ..." and returns normally to its caller.
C15_HandlerThrowCaught ==
    (Called /\ calls # <<>> /\ calls[1].handler \in ThrowingHandlers) =>
        /\ status = "returned"
        /\ Cardinality({j \in 1..Len(err) :
               err[j].msg = "An error occurred while executing the command"}) = 1


\* C16: no call of parse throws to its caller, whatever schema the command
\* was registered with and whatever the tokens are.
C16_NoExceptionEscapes == Called => status # "threw"


\* the option token at j, written without "=", selects the string or number
\* field key, and the tokens before it scan cleanly, so that the scan
\* classifies the token at j as an option
ScalarOptionAt(j, key) ==
    /\ ResolvesTo(1)
    /\ Unwrap(impl, commands[1].schema).ok
    /\ ~ArrayIncludes(Options, T_help)
    /\ j \in 1..Len(Options)
    /\ ~Includes(Options[j], "=")
    /\ Options[j] \in DOMAIN AliasTable(impl, commands[1].schema.shape)
    /\ AliasTable(impl, commands[1].schema.shape)[Options[j]] = key
    /\ SelectedField(Options[j]).kind \in {"string", "number"}
    /\ ScansCleanly(SubSeq(Options, 1, j - 1))
\* the token after j can be taken as a value
ValueFollows(j) == j < Len(Options) /\ ~StartsWith(Options[j + 1], <<"-">>)

\* C17: a string or number option written without "=" takes the next token
\* as its value, and that token is not looked at again; when there is no
\* next token or it starts with "-", the call prints "Option <token>
\* requires a value" with the option token as written and does not call
\* the handler.
C17_ScalarConsumesNextToken ==
    \A j \in 1..MaxOptions : \A key \in Keys(commands[1].schema.shape) :
        ScalarOptionAt(j, key) =>
            IF ValueFollows(j) THEN
                /\ ScansCleanly(SubSeq(Options, 1, j + 1))
                /\ Resolved(SubSeq(Options, 1, j + 1)).parsed[key] =
                       ParseValue(Some(Options[j + 1]), SelectedField(Options[j]))
            ELSE
                /\ err = <<Err("Option requires a value", Options[j])>>
                /\ calls = <<>>


\* C18: the record the handler is called with has a key only for a field
\* that some option token selects, and no key whose value is undefined: a
\* field that was left out is absent from the record.
C18_OmittedFieldAbsent ==
    (ResolvesTo(1) /\ calls # <<>>) =>
        \A key \in DOMAIN calls[1].record :
            /\ \E j \in 1..Len(Options) :
                   Selects(Options[j], AliasTable(impl, commands[1].schema.shape), key)
            /\ calls[1].record[key] # UndefV

\* the handler was called although no token selects the optional boolean
\* field key, and with a record that has another key
C18_Witness ==
    /\ ResolvesTo(1)
    /\ calls # <<>>
    /\ DOMAIN calls[1].record # {}
    /\ \E key \in Keys(commands[1].schema.shape) :
          /\ IsBooleanField(FieldOf(commands[1].schema.shape, key))
          /\ FieldOf(commands[1].schema.shape, key).optional
          /\ \A j \in 1..Len(Options) :
                 ~Selects(Options[j], AliasTable(impl, commands[1].schema.shape), key)
          /\ key \notin DOMAIN calls[1].record


\* the option tokens are an alias token of the string or number field key
\* and a value
AliasThenValue(key) ==
    /\ ResolvesTo(1)
    /\ Unwrap(impl, commands[1].schema).ok
    /\ key \in Keys(commands[1].schema.shape)
    /\ FieldOf(commands[1].schema.shape, key).kind \in {"string", "number"}
    /\ Len(Options) = 2
    /\ ArrayIncludes(GetAliases(FieldOf(commands[1].schema.shape, key)), Options[1])
    /\ ~StartsWith(Options[2], <<"-">>)
    /\ Options[2] # <<>>

\* C19: an alias token of a field (-a for a one-character alias, --alias
\* for a longer one) followed by a value does what the canonical token
\* --key followed by that value does: the handler is called once with the
\* record {key: value}.
C19_AliasSelectsField ==
    \A key \in Keys(commands[1].schema.shape) :
        AliasThenValue(key) =>
            /\ Observed = ObservedOf(<<lastArgs[1], <<"-", "-">> \o key, Options[2]>>)
            /\ Len(calls) = 1
            /\ calls[1].record =
                   Put(EmptyRec, key,
                       ParseValue(Some(Options[2]), FieldOf(commands[1].schema.shape, key)))


\* the names of the entries of a registry
NamesOf(cmds) == {cmds[k].name : k \in 1..Len(cmds)}
\* the entries of a registry
EntriesOf(cmds) == {cmds[k] : k \in 1..Len(cmds)}
\* the registration r is what the registry cmds holds under r's name
Holds(cmds, r) ==
    \E k \in 1..Len(cmds) :
        /\ cmds[k].name = r.name
        /\ cmds[k].schema = r.schema
        /\ cmds[k].handler = r.handler
        /\ cmds[k].aliases = r.aliases

\* C20: every addCommand call returns and leaves a registry with one entry
\* per name, in which the entry of the name just registered is the schema,
\* the handler and the alias list of that call, and the entries of all
\* other names are the ones the registry had before.
C20_RegistryLastWins ==
    [][(given' # given \/ commands' # commands) =>
          \E r \in Registrations :
              /\ Holds(given', r)
              /\ Holds(commands', r)
              /\ status' = "idle"
              /\ Len(commands') = Cardinality(NamesOf(commands'))
              /\ NamesOf(commands') = NamesOf(commands) \cup {r.name}
              /\ \A e \in EntriesOf(commands) :
                     e.name # r.name => e \in EntriesOf(commands')]_vars


\* C21: every call of parse comes to an end: the scan loop of the resolver
\* never stays on one index for ever, whatever the kind of the field and
\* the form of the token that selects it.
C21_ParseTerminates == Called => status # "hung"


\* C22: whenever the record handed to schema.safeParse has a key of an
\* array field, the value under it is an array of strings, whichever token
\* selected the field.
C22_ArrayFieldHoldsArray ==
    (/\ ResolvesTo(1)
     /\ Unwrap(impl, commands[1].schema).ok
     /\ ~ArrayIncludes(Options, T_help)
     /\ Resolved(Options).validated) =>
        \A key \in DOMAIN Resolved(Options).parsed :
            FieldOf(commands[1].schema.shape, key).kind = "array" =>
                Resolved(Options).parsed[key].t = "array"


\* the last option token selects the boolean field key, by itself or with
\* an inline value, and the tokens before it scan cleanly
BooleanOptionLast(key) ==
    /\ ResolvesTo(1)
    /\ Unwrap(impl, commands[1].schema).ok
    /\ ~ArrayIncludes(Options, T_help)
    /\ Options # <<>>
    /\ TokenName(Options[Len(Options)]) \in DOMAIN AliasTable(impl, commands[1].schema.shape)
    /\ AliasTable(impl, commands[1].schema.shape)[TokenName(Options[Len(Options)])] = key
    /\ IsBooleanField(SelectedField(TokenName(Options[Len(Options)])))
    /\ ScansCleanly(SubSeq(Options, 1, Len(Options) - 1))
\* the value the token t gives a boolean field: true without "=", the
\* boolean for "=true" and "=false", else the text after "=" as it is
BooleanValueOf(t) ==
    IF ~Includes(t, "=") THEN BoolV(TRUE)
    ELSE IF ValueAfterEq(t) = T_true THEN BoolV(TRUE)
    ELSE IF ValueAfterEq(t) = <<"f", "a", "l", "s", "e">> THEN BoolV(FALSE)
    ELSE StrV(ValueAfterEq(t))

\* C23: a boolean option without "=" sets true, "=true" and "=false" set
\* that boolean, and any other inline value goes into the record as the
\* string it is, for the schema to judge.
C23_BooleanInlineValue ==
    \A key \in Keys(commands[1].schema.shape) :
        BooleanOptionLast(key) =>
            /\ Resolved(Options).validated
            /\ Resolved(Options).parsed[key] = BooleanValueOf(Options[Len(Options)])


\* C24: a long option token name=value of a string or number field gives
\* the field the whole text after the first "=", further "=" characters
\* included.
C24_SplitAtFirstEquals ==
    (/\ Called
     /\ Len(lastArgs) > 1
     /\ InlineValueAt(Len(Options), <<"-", "-">>, 0)
     /\ ScansCleanly(SubSeq(Options, 1, Len(Options) - 1))) =>
        /\ Resolved(Options).validated
        /\ Resolved(Options).parsed[
               AliasTable(impl, commands[1].schema.shape)[TokenName(Options[Len(Options)])]] =
               ParseValue(Some(ValueAfterEq(Options[Len(Options)])),
                          SelectedField(TokenName(Options[Len(Options)])))


\* what a token denotes for a number field: its number when it is written
\* as a number (digits after an optional sign), else the token itself
NumberOrText(s) ==
    IF IsDigits(s) THEN NumV(DecVal(s))
    ELSE IF s # <<>> /\ Head(s) = "-" /\ IsDigits(Tail(s)) THEN NumV(0 - DecVal(Tail(s)))
    ELSE IF s # <<>> /\ Head(s) = "+" /\ IsDigits(Tail(s)) THEN NumV(DecVal(Tail(s)))
    ELSE StrV(s)
\* the option tokens are the option of the number field key and its value
NumberOptionThenValue(key) ==
    /\ Len(lastArgs) = 3
    /\ ScalarOptionAt(1, key)
    /\ IsNumberField(SelectedField(Options[1]))
    /\ ValueFollows(1)

\* C25: for a number field parseValue never throws, gives the number a
\* token denotes when the token is written as a number, and gives every
\* other token back as the string it is, the empty token and blank
\* tokens included.
C25_NumberOrOriginalToken ==
    \A key \in Keys(commands[1].schema.shape) :
        NumberOptionThenValue(key) =>
            /\ status # "threw"
            /\ Resolved(Options).validated
            /\ Resolved(Options).parsed[key] = NumberOrText(Options[2])


\* C26: the alias table of a parse call maps the canonical token --k of
\* every field key k to k, also when another field of the shape declares
\* an alias spelled like k; so "--k v" gives the string field k the value v.
C26_CanonicalEntryKept ==
    (ResolvesTo(1) /\ Unwrap(impl, commands[1].schema).ok) =>
        \A key \in Keys(commands[1].schema.shape) :
            /\ (<<"-", "-">> \o key) \in DOMAIN AliasTable(impl, commands[1].schema.shape)
            /\ AliasTable(impl, commands[1].schema.shape)[<<"-", "-">> \o key] = key
            /\ (/\ Options = <<(<<"-", "-">> \o key), T_x>>
                /\ FieldOf(commands[1].schema.shape, key).kind = "string") =>
                   /\ Resolved(Options).validated
                   /\ Has(Resolved(Options).parsed, key)
                   /\ Resolved(Options).parsed[key] = StrV(T_x)


\* what parse(lastArgs) does on this registry when the instance's
\* shouldDisplayHelp is flag at the time of the call
ObservedAfter(flag) ==
    LET o == ParseOutcome(impl, commands, flag, lastArgs)
    IN [status |-> o.status, out |-> o.out, err |-> o.err, calls |-> o.calls]

\* C27: what a parse call prints and which handler it calls with which
\* record is the same whatever earlier calls on the instance left in
\* shouldDisplayHelp: it is what the call does on a fresh instance and what
\* it does after a failed call.
C27_HistoryIndependent ==
    Called => \A flag \in BOOLEAN : Observed = ObservedAfter(flag)

\* a call on an instance whose shouldDisplayHelp an earlier, failed call
\* has set, and which ends in the handler
C27_Witness ==
    /\ Called
    /\ shouldDisplayHelp
    /\ ~ParseOutcome(impl, commands, FALSE, lastArgs).sdh
    /\ calls # <<>>


\* what the resolver of the class im returns for the option tokens of the
\* last call: how it ends, the record, and the errors it printed
ResolverResult(im) ==
    LET r == ParseArgs(im, Options, commands[1].schema, FALSE)
    IN [status |-> r.status, data |-> r.data, errs |-> r.errs]

\* C28: the three resolvers return the same for every schema and every
\* list of option tokens: the same record, or a failure with the same
\* error messages.
C28_ResolversEquivalent ==
    (ResolvesTo(1) /\ ~ArrayIncludes(Options, T_help)) =>
        \A im \in Impls : ResolverResult(im) = ResolverResult(impl)


\* what parse does once it has picked the registry entry def for the
\* option tokens of the last call
DispatchedTo(def) ==
    LET o == IF ArrayIncludes(Options, T_help)
             THEN HelpForCommand(impl, def, shouldDisplayHelp)
             ELSE Dispatch(impl, def, shouldDisplayHelp, Options)
    IN [status |-> o.status, out |-> o.out, err |-> o.err, calls |-> o.calls]

\* C29: when args[0] is the name of a registered command, parse dispatches
\* to that command: it renders that command's help or resolves against
\* its schema and calls its handler, also when another command lists the
\* token among its aliases.
C29_NameDispatchesToItsCommand ==
    \A k \in 1..Len(commands) :
        (Called /\ lastArgs # <<>> /\ commands[k].name = lastArgs[1]) =>
            Observed = DispatchedTo(commands[k])


\* the option token at j is --key=... of the string or number field key,
\* with any text after the "=", a token follows it, and the tokens before
\* it scan cleanly
InlineThenTokenAt(j, key) ==
    /\ ResolvesTo(1)
    /\ Unwrap(impl, commands[1].schema).ok
    /\ ~ArrayIncludes(Options, T_help)
    /\ j \in 1..(Len(Options) - 1)
    /\ StartsWith(Options[j], <<"-", "-">>)
    /\ Includes(Options[j], "=")
    /\ TokenName(Options[j]) \in DOMAIN AliasTable(impl, commands[1].schema.shape)
    /\ AliasTable(impl, commands[1].schema.shape)[TokenName(Options[j])] = key
    /\ SelectedField(TokenName(Options[j])).kind \in {"string", "number"}
    /\ ScansCleanly(SubSeq(Options, 1, j - 1))

\* the value the field key has after the scan of the option tokens up to
\* j followed by the token next, undefined when it has none
ValueWithNext(j, key, next) ==
    LET r == ParseArgs(impl, Append(SubSeq(Options, 1, j), next), commands[1].schema,
                       shouldDisplayHelp)
    IN IF Has(r.parsed, key) THEN r.parsed[key] ELSE UndefV

\* C30: an option written with an inline "=" does not take the token after
\* it as its value: the value the field has after the scan of both tokens
\* is the one it has with any other token in the place of the second.
C30_InlineNeverConsumesNext ==
    \A j \in 1..MaxOptions : \A key \in Keys(commands[1].schema.shape) :
        InlineThenTokenAt(j, key) =>
            \A other \in {T_x, T_y, T_5} :
                ~StartsWith(Options[j + 1], <<"-">>) =>
                    ValueWithNext(j, key, Options[j + 1]) = ValueWithNext(j, key, other)
====
